---- MODULE Spec2Model ----
(***************************************************************************)
(* ProviderCustomTTS (astrbot/core/provider/sources/custom_tts_source.py). *)
(*                                                                         *)
(* The adapter is constructed from provider_config, then the host issues   *)
(* get_audio(text) and test_connection() calls, possibly concurrently.     *)
(* Every coroutine is cut at its awaits: the code between two awaits runs  *)
(* without interleaving (asyncio), so it is one action.                    *)
(*                                                                         *)
(* Strings are sequences of characters; a token such as "custom_tts_" is   *)
(* a run of characters none of which is "/" or whitespace.  Log and        *)
(* exception messages are sequences of tokens, the fixed Chinese prefixes  *)
(* of the source being written as English tags (given at each use).        *)
(***************************************************************************)
EXTENDS Integers, Sequences, FiniteSets, TLC

\* ------------------------------------------------------------------ bounds
NumCalls == 2        \* calls the host may have in flight at once
MaxBodyLen == 1      \* longest response body, in bytes

Calls == 1 .. NumCalls

\* ------------------------------------------------------------------ inputs
\* text arguments of get_audio: empty, whitespace-only, and a text with content
\* between whitespace
Texts ==
    { <<>>, <<" ">>, <<"\t", " ">>, <<" ", "a", " ">> }

\* provider_config: api_base absent, or one of these strings
ApiBaseInputs ==
    { <<"http:", "/", "/", "x", "/">>,
      <<"http:", "/", "/", "x", "/", "/">> }

ProviderConfigs ==
    { [k \in {} |-> <<>>] } \cup { [api_base |-> b] : b \in ApiBaseInputs }

\* HTTP statuses the remote service answers with
Statuses == {200, 400, 404, 422, 500}

\* response bodies: byte strings of at most MaxBodyLen bytes (of the byte 65, "A")
RECURSIVE BodyOfLen(_)
BodyOfLen(n) == IF n = 0 THEN <<>> ELSE Append(BodyOfLen(n - 1), 65)

Bodies == { BodyOfLen(n) : n \in 0 .. MaxBodyLen }

\* exceptions session.post can raise before a status is obtained:
\* connection refused / DNS failure, connection reset, expiry of
\* ClientTimeout(total=...), and an exception of neither family
PostExceptions ==
    { [cls |-> "ClientConnectorError", msg |-> <<"Cannot connect to host">>],
      [cls |-> "ServerDisconnectedError", msg |-> <<"Server disconnected">>],
      [cls |-> "TimeoutError", msg |-> <<>>],
      [cls |-> "TypeError", msg |-> <<"not JSON serializable">>] }

VARIABLES
    provider_config,   \* the mapping __init__ was given
    api_base,          \* self.api_base
    call,              \* per call: operation, position, locals, result, events
    files,             \* the filesystem under the temp directory: path -> bytes
    temp_dir_exists,   \* whether <data>/temp exists
    uuids_drawn        \* values uuid.uuid4() has returned so far

vars == <<provider_config, api_base, call, files, temp_dir_exists, uuids_drawn>>

\* ------------------------------------------------------- pure helpers
\* str.strip() with no argument removes leading and trailing whitespace
IsWhitespace(ch) == ch \in {" ", "\t", "\n", "\r"}

RECURSIVE LStrip(_)
LStrip(s) ==
    IF s # <<>> /\ IsWhitespace(Head(s)) THEN LStrip(Tail(s)) ELSE s

RECURSIVE RStrip(_)
RStrip(s) ==
    IF s # <<>> /\ IsWhitespace(s[Len(s)])
    THEN RStrip(SubSeq(s, 1, Len(s) - 1))
    ELSE s

Strip(s) == RStrip(LStrip(s))

\* `if text` without the strip
IsBlankUnstripped(text) == text = <<>>

\* `not text.strip()`
IsBlank(text) == Strip(text) = <<>>

\* str.endswith("/")
EndsWithSlash(s) == s # <<>> /\ s[Len(s)] = "/"

\* dict.get(key, default)
ConfigGet(cfg, key, default) == IF key \in DOMAIN cfg THEN cfg[key] ELSE default

DefaultApiBase == <<"http:", "/", "/", "127.0.0.1:50042">>

\* self.api_base as __init__ leaves it
InitApiBase(cfg) ==
    LET b == ConfigGet(cfg, "api_base", DefaultApiBase)
    IN  IF EndsWithSlash(b) THEN SubSeq(b, 1, Len(b) - 1) ELSE b

\* f"{self.api_base}/get_role_music"
Endpoint(base) == base \o <<"/", "get_role_music">>

\* os.path.join(get_astrbot_data_path(), "temp")
TempDir == <<"data", "/", "temp">>

\* uuid.uuid4(): 122 random bits.  A value is drawn that no earlier call of
\* this process was given; a repeat (probability 2^-122 for each pair of
\* calls) is taken not to happen.
Uuid4Values == (1 .. NumCalls) \ uuids_drawn

\* UUID.hex: lower-case hexadecimal digits
Hex(u) == <<"0", "1", "2", "3", "4", "5", "6", "7",
            "8", "9", "a", "b", "c", "d", "e", "f">>[(u % 16) + 1]

\* a file name that does not use the identifier
AudioPathFixed(u) == TempDir \o <<"/", "custom_tts_", ".wav">>

\* os.path.join(temp_dir, f"custom_tts_{uuid.uuid4().hex}.wav")
AudioPath(u) == TempDir \o <<"/", "custom_tts_", Hex(u), ".wav">>

\* str(response.status)
StatusStr(status) ==
    CASE status = 200 -> "200"
      [] status = 400 -> "400"
      [] status = 404 -> "404"
      [] status = 422 -> "422"
      [] status = 500 -> "500"

\* response.text(): the body decoded, byte by byte
Decode(body) == [i \in 1 .. Len(body) |-> IF body[i] = 65 THEN "A" ELSE "?"]

\* a write that drops the last byte
WriteFileTruncated(fs, path, data) ==
    [p \in DOMAIN fs \cup {path} |->
        IF p = path
        THEN (IF data = <<>> THEN <<>> ELSE SubSeq(data, 1, Len(data) - 1))
        ELSE fs[p]]

\* open(path, "wb") then f.write(data): the file is created or truncated and
\* holds exactly data
WriteFile(fs, path, data) ==
    [p \in DOMAIN fs \cup {path} |-> IF p = path THEN data ELSE fs[p]]

\* os.path.exists(path) and os.path.getsize(path) > 0
FileNonEmpty(fs, path) == path \in DOMAIN fs /\ Len(fs[path]) > 0

\* status accepted by the probe when only 200 counts
ProbeStatusOkOnly200(status) == status = 200

\* response.status in [200, 400, 422]
ProbeStatusOk(status) == status \in {200, 400, 422}

\* ------------------------------------------------------- exceptions
\* the classes an exception class inherits from (itself included)
Bases(cls) ==
    CASE cls = "ClientConnectorError" ->
            {"ClientConnectorError", "ClientOSError", "ClientConnectionError",
             "ClientError", "OSError", "Exception"}
      [] cls = "ServerDisconnectedError" ->
            {"ServerDisconnectedError", "ClientConnectionError", "ClientError",
             "Exception"}
      [] cls = "TimeoutError" -> {"TimeoutError", "Exception"}
      [] cls = "RuntimeError" -> {"RuntimeError", "Exception"}
      [] cls = "TypeError" -> {"TypeError", "Exception"}
      [] cls = "ValueError" -> {"ValueError", "Exception"}

IsInstance(exc, base) == base \in Bases(exc.cls)

\* ------------------------------------------------------- events of a call
LogEvent(level, msg) == [ev |-> "log", tag |-> level, data |-> msg]
PostEvent(endpoint) == [ev |-> "post", tag |-> "POST", data |-> endpoint]
WriteEvent(path) == [ev |-> "write", tag |-> "wb", data |-> path]
RaiseEvent(cls, msg) == [ev |-> "raise", tag |-> cls, data |-> msg]
ReturnEvent == [ev |-> "return", tag |-> "", data |-> <<>>]

\* ------------------------------------------------------- get_audio handlers
\* The except clauses of get_audio, tried in order on an exception that leaves
\* the try block: the events logged and the RuntimeError raised in its place.
\* Tags: "NetworkRequestFailed" = "网络请求失败", "RequestTimeout" = "请求超时",
\* "UnknownError" = "未知错误".

\* one catch-all clause
GetAudioExceptCatchAll(exc) ==
    [ events |-> << LogEvent("error", <<"UnknownError">> \o exc.msg) >>,
      msg    |-> <<"UnknownError">> \o exc.msg ]

GetAudioExcept(exc) ==
    IF IsInstance(exc, "ClientError")
    THEN [ events |-> << LogEvent("error", <<"NetworkRequestFailed">> \o exc.msg) >>,
           msg    |-> <<"NetworkRequestFailed">> \o exc.msg ]
    ELSE IF IsInstance(exc, "TimeoutError")
    THEN [ events |-> << LogEvent("error", <<"RequestTimeout", "timeout">>) >>,
           msg    |-> <<"RequestTimeout">> ]
    ELSE [ events |-> << LogEvent("error", <<"UnknownError">> \o exc.msg) >>,
           msg    |-> <<"UnknownError">> \o exc.msg ]

\* ------------------------------------------------------- state of a call
IdleCall ==
    [ op         |-> "none",      \* "get_audio" or "test_connection"
      pc         |-> "idle",      \* "idle", "awaiting" (the POST), "done"
      text       |-> <<>>,        \* argument of get_audio
      audio_path |-> <<>>,        \* local audio_path
      exc        |-> "",          \* class of the exception the POST raised
      status     |-> 0,           \* response.status, 0 before a response
      body       |-> <<>>,        \* bytes of the response body
      outcome    |-> "pending",   \* "returned" or "raised"
      err_cls    |-> "",          \* class of the exception the caller gets
      err_msg    |-> <<>>,        \* its message
      ret_path   |-> <<>>,        \* value get_audio returned
      ret_bool   |-> FALSE,       \* value test_connection returned
      trace      |-> <<>> ]       \* what the call did, in order

\* the call ends by raising cls(msg) to its caller
Raised(rec, events, cls, msg) ==
    [ rec EXCEPT !.pc = "done", !.outcome = "raised", !.err_cls = cls,
                 !.err_msg = msg,
                 !.trace = rec.trace \o events \o << RaiseEvent(cls, msg) >> ]

\* the call ends by returning to its caller
Returned(rec, events, path, bool) ==
    [ rec EXCEPT !.pc = "done", !.outcome = "returned", !.ret_path = path,
                 !.ret_bool = bool,
                 !.trace = rec.trace \o events \o << ReturnEvent >> ]

\* ------------------------------------------------------- construction
Init ==
    /\ provider_config \in ProviderConfigs
    /\ api_base = InitApiBase(provider_config)
    /\ call = [c \in Calls |-> IdleCall]
    /\ files = [p \in {} |-> <<>>]
    /\ temp_dir_exists = FALSE
    /\ uuids_drawn = {}

\* ------------------------------------------------------- get_audio
\* get_audio up to its first await: the precondition, the temp directory, the
\* destination path, the request, and the POST being issued.
GetAudioBegin(c, text) ==
    /\ call[c].pc = "idle"
    /\ LET rec == [call[c] EXCEPT !.op = "get_audio", !.text = text]
       IN  IF IsBlank(text)
           THEN /\ call' = [call EXCEPT ![c] =
                        Raised(rec, << >>, "ValueError", <<"EmptyText">>)]
                /\ UNCHANGED <<temp_dir_exists, uuids_drawn>>
           ELSE \E u \in Uuid4Values :
                /\ temp_dir_exists' = TRUE
                /\ uuids_drawn' = uuids_drawn \cup {u}
                /\ call' = [call EXCEPT ![c] =
                        [rec EXCEPT
                            !.pc = "awaiting",
                            !.audio_path = AudioPath(u),
                            !.trace = << LogEvent("debug", <<"CallingEndpoint">> \o Endpoint(api_base)),
                                         LogEvent("debug", <<"RequestParams">> \o text),
                                         PostEvent(Endpoint(api_base)) >>]]
    /\ UNCHANGED <<provider_config, api_base, files>>

\* session.post raises before a status is obtained, and the POST is sent again
GetAudioPostRaisesRetry(c, exc) ==
    /\ call[c].op = "get_audio"
    /\ call[c].pc = "awaiting"
    /\ call' = [call EXCEPT ![c] =
            IF call[c].exc = ""
            THEN [call[c] EXCEPT !.exc = exc.cls,
                    !.trace = call[c].trace \o << PostEvent(Endpoint(api_base)) >>]
            ELSE LET h == GetAudioExcept(exc)
                 IN  Raised([call[c] EXCEPT !.exc = exc.cls], h.events,
                            "RuntimeError", h.msg)]
    /\ UNCHANGED <<provider_config, api_base, files, temp_dir_exists, uuids_drawn>>

\* session.post raises before a status is obtained
GetAudioPostRaises(c, exc) ==
    /\ call[c].op = "get_audio"
    /\ call[c].pc = "awaiting"
    /\ LET h == GetAudioExcept(exc)
       IN  call' = [call EXCEPT ![c] =
                Raised([call[c] EXCEPT !.exc = exc.cls], h.events,
                       "RuntimeError", h.msg)]
    /\ UNCHANGED <<provider_config, api_base, files, temp_dir_exists, uuids_drawn>>

\* the response arrives: status 200 (the body is written and verified) or any
\* other status (the body is read as text and the call fails).  A RuntimeError
\* raised inside the try block passes through the except clauses like any
\* other exception.  Tags: "ApiRequestFailed" = "API请求失败",
\* "EmptyAudioFile" = "生成的音频文件为空或不存在".
GetAudioResponse(c, status, body) ==
    /\ call[c].op = "get_audio"
    /\ call[c].pc = "awaiting"
    /\ LET rec  == [call[c] EXCEPT !.status = status, !.body = body]
           path == call[c].audio_path
       IN  IF status = 200
           THEN LET fs == WriteFile(files, path, body)
                IN  /\ files' = fs
                    /\ IF FileNonEmpty(fs, path)
                       THEN call' = [call EXCEPT ![c] =
                                Returned(rec,
                                    << WriteEvent(path),
                                       LogEvent("info", <<"AudioGenerated">> \o path) >>,
                                    path, FALSE)]
                       ELSE LET h == GetAudioExcept(
                                    [cls |-> "RuntimeError", msg |-> <<"EmptyAudioFile">>])
                            IN  call' = [call EXCEPT ![c] =
                                    Raised(rec, << WriteEvent(path) >> \o h.events,
                                           "RuntimeError", h.msg)]
           ELSE LET error_text == Decode(body)
                    inner == [cls |-> "RuntimeError",
                              msg |-> <<"ApiRequestFailed", StatusStr(status), "-">>
                                        \o error_text]
                    h == GetAudioExcept(inner)
                IN  /\ files' = files
                    /\ call' = [call EXCEPT ![c] =
                            Raised(rec,
                                << LogEvent("error", <<"ApiRequestFailedStatus", StatusStr(status)>>),
                                   LogEvent("error", <<"ErrorInfo">> \o error_text) >>
                                  \o h.events,
                                "RuntimeError", h.msg)]
    /\ UNCHANGED <<provider_config, api_base, temp_dir_exists, uuids_drawn>>

\* ------------------------------------------------------- test_connection
\* test_connection up to its await: the probe is posted
TestConnectionBegin(c) ==
    /\ call[c].pc = "idle"
    /\ call' = [call EXCEPT ![c] =
            [call[c] EXCEPT !.op = "test_connection", !.pc = "awaiting",
                            !.trace = << PostEvent(Endpoint(api_base)) >>]]
    /\ UNCHANGED <<provider_config, api_base, files, temp_dir_exists, uuids_drawn>>

\* the probe raises: `except Exception` logs a warning and returns False
\* ("ConnectionTestFailed" = "连接测试失败")
TestConnectionPostRaises(c, exc) ==
    /\ call[c].op = "test_connection"
    /\ call[c].pc = "awaiting"
    /\ IsInstance(exc, "Exception")
    /\ call' = [call EXCEPT ![c] =
            Returned([call[c] EXCEPT !.exc = exc.cls],
                     << LogEvent("warning", <<"ConnectionTestFailed">> \o exc.msg) >>,
                     <<>>, FALSE)]
    /\ UNCHANGED <<provider_config, api_base, files, temp_dir_exists, uuids_drawn>>

\* the probe gets a status
TestConnectionResponse(c, status) ==
    /\ call[c].op = "test_connection"
    /\ call[c].pc = "awaiting"
    /\ call' = [call EXCEPT ![c] =
            Returned([call[c] EXCEPT !.status = status], << >>, <<>>,
                     ProbeStatusOk(status))]
    /\ UNCHANGED <<provider_config, api_base, files, temp_dir_exists, uuids_drawn>>

\* ------------------------------------------------------- specification
Next ==
    \/ \E c \in Calls, text \in Texts : GetAudioBegin(c, text)
    \/ \E c \in Calls, exc \in PostExceptions : GetAudioPostRaises(c, exc)
    \/ \E c \in Calls, status \in Statuses, body \in Bodies :
            GetAudioResponse(c, status, body)
    \/ \E c \in Calls : TestConnectionBegin(c)
    \/ \E c \in Calls, exc \in PostExceptions : TestConnectionPostRaises(c, exc)
    \/ \E c \in Calls, status \in Statuses : TestConnectionResponse(c, status)

Spec == Init /\ [][Next]_vars

\* ------------------------------------------------------- reading a call
\* The kind of the error a call of get_audio surfaced: the class of the exception
\* the caller gets and, for a RuntimeError, the prefix of its message.
ErrorKind(rec) ==
    IF rec.err_cls = "ValueError" THEN "InvalidInput"
    ELSE CASE Head(rec.err_msg) = "ApiRequestFailed" -> "RemoteRejected"
           [] Head(rec.err_msg) = "EmptyAudioFile" -> "SynthesisFailed"
           [] Head(rec.err_msg) = "NetworkRequestFailed" -> "NetworkFailure"
           [] Head(rec.err_msg) = "RequestTimeout" -> "Timeout"
           [] OTHER -> "UnknownFailure"

IsGetAudio(c) == call[c].op = "get_audio"
IsTestConnection(c) == call[c].op = "test_connection"
Done(c) == call[c].pc = "done"
Failed(c) == call[c].outcome = "raised"
Succeeded(c) == call[c].outcome = "returned"

\* positions in the trace of call c holding an event of kind ev
EventsOf(c, ev) == { i \in DOMAIN call[c].trace : call[c].trace[i].ev = ev }

PostCount(c) == Cardinality(EventsOf(c, "post"))

\* every character of the text is whitespace (the empty text included)
OnlyWhitespace(text) == \A i \in DOMAIN text : text[i] \in {" ", "\t", "\n", "\r"}

Tokens(msg) == { msg[i] : i \in DOMAIN msg }

\* ------------------------------------------------------- claims

\* C1: a get_audio call whose text is empty or all whitespace has failed with
\* InvalidInput (ValueError) and has attempted no HTTP request.
C1_BlankTextInvalidInputNoRequest ==
    \A c \in Calls :
        (IsGetAudio(c) /\ OnlyWhitespace(call[c].text)) =>
            /\ Done(c) /\ Failed(c)
            /\ ErrorKind(call[c]) = "InvalidInput"
            /\ PostCount(c) = 0
            /\ call[c].status = 0 /\ call[c].exc = ""

C1_Witness ==
    \E c \in Calls :
        /\ IsGetAudio(c) /\ call[c].text = <<"\t", " ">>
        /\ Failed(c) /\ call[c].err_cls = "ValueError"

\* C2: a get_audio call answered with a non-200 status fails with an error of
\* the RemoteRejected kind that carries the status code received.
C2_Non200IsRemoteRejected ==
    \A c \in Calls :
        (IsGetAudio(c) /\ Done(c) /\ call[c].status \notin {0, 200}) =>
            /\ Failed(c)
            /\ ErrorKind(call[c]) = "RemoteRejected"
            /\ StatusStr(call[c].status) \in Tokens(call[c].err_msg)

\* C3: a get_audio call answered with status 200 and an empty body fails with
\* SynthesisFailed, leaving no file or an empty file; and no call returns a
\* path whose file is missing or empty.
C3_EmptyBodyIsSynthesisFailed ==
    \A c \in Calls :
        /\ (IsGetAudio(c) /\ Done(c) /\ call[c].status = 200 /\ call[c].body = <<>>) =>
                /\ Failed(c)
                /\ ErrorKind(call[c]) = "SynthesisFailed"
                /\ (call[c].audio_path \in DOMAIN files =>
                        files[call[c].audio_path] = <<>>)
        /\ (IsGetAudio(c) /\ Succeeded(c)) =>
                /\ call[c].ret_path \in DOMAIN files
                /\ files[call[c].ret_path] # <<>>

\* C4: a get_audio call with non-blank text answered with status 200 and a
\* non-empty body returns <temp-dir>/custom_tts_<hex>.wav, a file that exists,
\* is non-empty and holds exactly the bytes of the response body.
C4_SuccessWritesBodyVerbatim ==
    \A c \in Calls :
        (IsGetAudio(c) /\ Done(c) /\ call[c].status = 200 /\ call[c].body # <<>>) =>
            LET p == call[c].ret_path
                n == Len(TempDir)
            IN  /\ Succeeded(c)
                /\ Len(p) = n + 4
                /\ SubSeq(p, 1, n) = TempDir
                /\ p[n + 1] = "/"
                /\ p[n + 2] = "custom_tts_"
                /\ p[n + 3] \in {"0", "1", "2", "3", "4", "5", "6", "7",
                                 "8", "9", "a", "b", "c", "d", "e", "f"}
                /\ p[n + 4] = ".wav"
                /\ p \in DOMAIN files
                /\ Len(files[p]) > 0
                /\ files[p] = call[c].body

C4_Witness ==
    \E c \in Calls :
        /\ IsGetAudio(c) /\ Succeeded(c)
        /\ call[c].status = 200
        /\ Len(call[c].body) = MaxBodyLen
        /\ files[call[c].ret_path] = call[c].body

\* C5: test_connection never raises; it returns true exactly when the probe
\* got status 200, 400 or 422, and false for any other status and for any
\* exception of the probe.
C5_TestConnectionNeverRaises ==
    \A c \in Calls :
        IsTestConnection(c) =>
            /\ ~Failed(c)
            /\ Done(c) =>
                /\ Succeeded(c)
                /\ call[c].ret_bool <=> (call[c].status \in {200, 400, 422})
                /\ call[c].exc # "" => (call[c].status = 0 /\ ~call[c].ret_bool)

C5_Witness ==
    \E c, d \in Calls :
        /\ IsTestConnection(c) /\ Succeeded(c)
        /\ call[c].status = 422 /\ call[c].ret_bool
        /\ IsTestConnection(d) /\ Succeeded(d)
        /\ call[d].exc = "ClientConnectorError" /\ ~call[d].ret_bool

\* C6: the stored api_base never ends in "/", so the endpoint has no double
\* slash before get_role_music.
C6_ApiBaseNeverEndsInSlash ==
    LET e == Endpoint(api_base)
        n == Len(e)
    IN  /\ ~EndsWithSlash(api_base)
        /\ ~(n >= 3 /\ e[n - 1] = "/" /\ e[n - 2] = "/")

\* C7: in every get_audio call that ended in an error, an error log entry was
\* emitted before the error was raised to the caller.
C7_EveryFailureLoggedBeforeRaise ==
    \A c \in Calls :
        (IsGetAudio(c) /\ Failed(c)) =>
            \E i \in EventsOf(c, "log"), j \in EventsOf(c, "raise") :
                /\ i < j
                /\ call[c].trace[i].tag = "error"

\* C8: any two get_audio calls that computed a destination path have distinct
\* paths, and a call writes only to its own path.
C8_DistinctPathsPerCall ==
    \A c, d \in Calls :
        (c # d /\ call[c].audio_path # <<>> /\ call[d].audio_path # <<>>) =>
            /\ call[c].audio_path # call[d].audio_path
            /\ \A i \in EventsOf(c, "write") :
                    /\ call[c].trace[i].data = call[c].audio_path
                    /\ call[c].trace[i].data # call[d].audio_path

C8_Witness ==
    \E c, d \in Calls :
        /\ c # d
        /\ IsGetAudio(c) /\ IsGetAudio(d)
        /\ call[c].text = call[d].text
        /\ call[c].pc = "awaiting"
        /\ EventsOf(d, "write") # {}
        /\ call[c].audio_path # call[d].audio_path

\* C9: a POST that fails before a status is obtained is classified by cause:
\* a network-level failure gives NetworkFailure carrying the cause description,
\* expiry of the timeout gives Timeout; neither gives UnknownFailure.
C9_PostFailureClassifiedByCause ==
    \A c \in Calls :
        (IsGetAudio(c) /\ Done(c) /\ call[c].exc # "") =>
            /\ Failed(c)
            /\ call[c].exc \in {"ClientConnectorError", "ServerDisconnectedError"} =>
                /\ ErrorKind(call[c]) = "NetworkFailure"
                /\ \E e \in PostExceptions :
                        e.cls = call[c].exc /\ Tail(call[c].err_msg) = e.msg
            /\ call[c].exc = "TimeoutError" => ErrorKind(call[c]) = "Timeout"
            /\ call[c].exc \in {"ClientConnectorError", "ServerDisconnectedError",
                                "TimeoutError"} =>
                    ErrorKind(call[c]) # "UnknownFailure"

C9_Witness ==
    \E c, d \in Calls :
        /\ IsGetAudio(c) /\ Failed(c) /\ call[c].exc = "TimeoutError"
        /\ IsGetAudio(d) /\ Failed(d) /\ call[d].exc = "ServerDisconnectedError"

\* C10: a get_audio call with non-blank text issues exactly one POST, to
\* <api_base>/get_role_music, whatever its outcome.
C10_ExactlyOnePost ==
    \A c \in Calls :
        (IsGetAudio(c) /\ ~OnlyWhitespace(call[c].text)) =>
            /\ PostCount(c) = 1
            /\ \A i \in EventsOf(c, "post") :
                    call[c].trace[i].data = api_base \o <<"/", "get_role_music">>

C10_Witness ==
    \E c, d \in Calls :
        /\ IsGetAudio(c) /\ Failed(c) /\ call[c].exc = "ClientConnectorError"
        /\ PostCount(c) = 1
        /\ IsGetAudio(d) /\ Succeeded(d) /\ PostCount(d) = 1

====
